---- MODULE Spec2Model ----
(***************************************************************************)
(* HeTr: the heterogeneous transformer of ngraph                           *)
(* (ngraph/transformers/hetrtransform.py).  One coordinating process       *)
(* builds a distributed computation (HetrComputation.__init__), invokes    *)
(* it (HetrComputation.__call__) and closes the worker fleet               *)
(* (HetrTransformer.close).                                                *)
(***************************************************************************)
EXTENDS Integers, Sequences, FiniteSets, TLC

VARIABLES
    ops,                \* the arena of graph nodes: node id -> Op record
    default_device,     \* HetrTransformer.default_device
    my_pid,             \* HetrTransformer.my_pid
    closers,            \* position of each thread that calls close() on its own
    is_closed,          \* HetrTransformer.is_closed
    child_transformers, \* HetrTransformer.child_transformers: names, in iteration order
    clients,            \* the RPCTransformerClient behind each registered name
    send_nodes,         \* HetrTransformer.send_nodes (OrderedSet of node ids)
    mpilauncher,        \* HetrTransformer.mpilauncher
    log,                \* every call issued to a worker client or to the launcher
    api,                \* the top-level operations started so far, with their pid
    pc,                 \* position of the coordinating process
    pid,                \* os.getpid() of the process running close()
    computation_op,     \* HetrComputation.computation_op of the build in progress
    returns,            \* HetrComputation.returns
    new_returns,        \* local new_returns of __init__
    pass_ops,           \* local pass_ops of __init__
    whole_graph,        \* local whole_graph of __init__
    pb_whole_graph,     \* local pb_whole_graph of __init__
    pb_ops,             \* local pb_ops of __init__
    pb_edges,           \* local pb_edges of __init__
    i,                  \* loop index of the serialization loop
    t_placeholders,     \* local t_placeholders of __init__
    t_returns,          \* local t_returns of __init__
    child_computations, \* HetrComputation.child_computations of the build in progress
    k,                  \* loop index of the loops over child transformers
    comps,              \* the HetrComputation objects built so far
    cur,                \* index in comps of the computation being invoked
    args,               \* local args of __call__
    return_vals,        \* local return_vals of __call__
    result              \* what the last __call__ returned

vars == <<ops, default_device, my_pid, closers, is_closed, child_transformers, clients,
          send_nodes, mpilauncher, log, api, pc, pid, computation_op, returns,
          new_returns, pass_ops, whole_graph, pb_whole_graph, pb_ops, pb_edges,
          i, t_placeholders, t_returns, child_computations, k, comps, cur,
          args, return_vals, result>>

graphVars == <<ops, send_nodes>>
hetrVars == <<default_device, my_pid, closers, is_closed, child_transformers, clients,
              mpilauncher>>
serdeVars == <<whole_graph, pb_whole_graph, pb_ops, pb_edges, i>>
buildVars == <<computation_op, returns, new_returns, pass_ops, t_placeholders,
               t_returns, child_computations>>
callVars == <<cur, args, return_vals, result>>

-----------------------------------------------------------------------------
(* Program constants and bounds *)

OPS_PER_MSG == 10

MaxNodes == 23      \* largest whole graph handed to the serialization loop alone
MaxOperations == 3  \* top-level operations (builds, invocations, closes) per run
MaxBuilds == 2      \* computations built per run

Pids == {1, 2}

\* the threads of the owning process that call close() on their own
Threads == {1, 2}

\* no thread has called close()
NoClosers == [t \in Threads |-> [pc |-> "idle", k |-> 0, op |-> 0]]

-----------------------------------------------------------------------------
(* Sequence helpers *)

Range(s) == {s[x] : x \in DOMAIN s}

Contains(s, e) == \E x \in DOMAIN s : s[x] = e

RECURSIVE SeqFilter(_, _)
SeqFilter(s, keep) ==
    IF s = <<>> THEN <<>>
    ELSE (IF Head(s) \in keep THEN <<Head(s)>> ELSE <<>>) \o SeqFilter(Tail(s), keep)

\* OrderedSet.add: append unless present
OrderedAdd(s, e) == IF Contains(s, e) THEN s ELSE Append(s, e)

RECURSIVE OrderedUnion(_, _)
\* OrderedSet | OrderedSet: the left operand, then the new elements of the right
OrderedUnion(s, t) ==
    IF t = <<>> THEN s ELSE OrderedUnion(OrderedAdd(s, Head(t)), Tail(t))

RECURSIVE SortedSeq(_)
\* the elements of a finite set of integers in ascending order
SortedSeq(S) ==
    IF S = {} THEN <<>>
    ELSE LET m == CHOOSE x \in S : \A y \in S : x <= y
         IN  <<m>> \o SortedSeq(S \ {m})

RECURSIVE Flatten(_)
Flatten(ss) == IF ss = <<>> THEN <<>> ELSE Head(ss) \o Flatten(Tail(ss))

-----------------------------------------------------------------------------
(* Graph nodes *)

NoMeta == [tag |-> "none", v |-> <<>>]
IntMeta(n) == [tag |-> "int", v |-> <<n>>]
ListMeta(s) == [tag |-> "list", v |-> s]
StrMeta(n) == [tag |-> "str", v |-> <<n>>]

\* a transformer name: "cpu0", "gpu1", ... kept as device word and number
TName(dev, id) == [dev |-> dev, id |-> id]

Node(kind, nargs, dev, devid) ==
    [kind |-> kind, args |-> nargs, states_read |-> <<>>, send_node |-> 0,
     device |-> dev, device_id |-> devid, transformer |-> NoMeta,
     is_split_op |-> FALSE, hetr_replaced_by |-> 0, replaces_op |-> 0]

\* op_to_protobuf: the operation descriptor of node o
OpToProtobuf(g, o) ==
    [name |-> o, op_type |-> g[o].kind, device |-> g[o].device]

\* add_edges: the edge descriptors of node o, appended to pb_edges
AddEdges(edges, g, o) ==
    edges \o [a \in 1..Len(g[o].args) |->
                 [consumer |-> o, position |-> a, producer |-> g[o].args[a]]]

-----------------------------------------------------------------------------
(* Ownership and registry *)

RECURSIVE Digits(_)
\* str(n) as a sequence of decimal digits
Digits(n) == IF n < 10 THEN <<n>> ELSE Append(Digits(n \div 10), n % 10)

IsPrefix(s, t) == Len(s) <= Len(t) /\ SubSeq(t, 1, Len(s)) = s

\* Python "a in b" for two names device-word + number: a substring test.
\* The device words are three letters and the rest are digits, so the
\* needle can only match at position 0.
StrIn(a, b) == a.dev = b.dev /\ IsPrefix(Digits(a.id), Digits(b.id))

\* is_my_op (lines 109-111); a node without 'transformer' metadata raises
\* KeyError, which callers test with HasTransformer before
IsMyOp(op, name) ==
    IF op.transformer.tag = "str"
    THEN name = op.transformer.v[1] \/ StrIn(name, op.transformer.v[1])
    ELSE Contains(op.transformer.v, name)

HasTransformer(op) == op.transformer.tag # "none"

NewClient == [server_address |-> -1, built |-> 0, created |-> 0, fed |-> <<>>,
              closed_transformer |-> 0, closed |-> 0]

\* register_transformer without the test of line 230: a name already in the
\* registry gets a new client in place of its old one
RegisterTransformerFresh(reg, tname) ==
    IF tname.dev \in {"cpu", "gpu"}
    THEN [names |-> IF Contains(reg.names, tname) THEN reg.names
                    ELSE Append(reg.names, tname),
          clients |-> [n \in DOMAIN reg.clients \cup {tname} |->
                         IF n = tname THEN NewClient ELSE reg.clients[n]],
          err |-> reg.err]
    ELSE [reg EXCEPT !.err = TRUE]

\* register_transformer that makes a client for every name it is given
RegisterTransformerAnyName(reg, tname) ==
    IF Contains(reg.names, tname) THEN reg
    ELSE [names |-> Append(reg.names, tname),
          clients |-> [n \in DOMAIN reg.clients \cup {tname} |->
                         IF n \in DOMAIN reg.clients THEN reg.clients[n]
                         ELSE NewClient],
          err |-> reg.err]

\* HetrTransformer.register_transformer (lines 229-238) on the registry
\* reg = [names, clients, err]
RegisterTransformer(reg, tname) ==
    IF Contains(reg.names, tname) THEN reg
    ELSE IF tname.dev \in {"cpu", "gpu"}
         THEN [names |-> Append(reg.names, tname),
               clients |-> [n \in DOMAIN reg.clients \cup {tname} |->
                              IF n \in DOMAIN reg.clients THEN reg.clients[n]
                              ELSE NewClient],
               err |-> reg.err]
         ELSE [reg EXCEPT !.err = TRUE]   \* trans_client is unbound on line 238

RECURSIVE RegisterAll(_, _)
RegisterAll(reg, names) ==
    IF names = <<>> \/ reg.err THEN reg   \* the exception ends the pass
    ELSE RegisterAll(RegisterTransformer(reg, Head(names)), Tail(names))

-----------------------------------------------------------------------------
(* Graph traversal and the graph passes *)

Deps(g, o) == Range(g[o].args) \cup Range(g[o].states_read)

RECURSIVE ReachFrom(_, _, _)
ReachFrom(g, frontier, visited) ==
    IF frontier = {} THEN visited
    ELSE LET o == CHOOSE x \in frontier : TRUE
             nv == visited \cup {o}
         IN  ReachFrom(g, (frontier \cup Deps(g, o)) \ nv, nv)

\* Op.all_op_references: the closure of the roots, in a fixed order
AllOpReferences(g, roots) == SortedSeq(ReachFrom(g, Range(roots), {}))

DefaultDeviceId == 0

\* DeviceAssignPass.visit: the metadata of one node after device assignment
DeviceAssign(op, dflt) ==
    IF op.device = "unresolved" THEN op   \* no resolvable device: left as it is
    ELSE
    LET dev == IF op.device = "none" THEN dflt ELSE op.device
        did == IF op.device_id.tag = "none" THEN IntMeta(DefaultDeviceId)
               ELSE op.device_id
        tr == IF did.tag = "list"
              THEN ListMeta([x \in 1..Len(did.v) |-> TName(dev, did.v[x])])
              ELSE StrMeta(TName(dev, did.v[1]))
    IN  [op EXCEPT !.device = dev, !.device_id = did, !.transformer = tr]

\* DeviceAssignPass.do_pass over the closure of pass_ops
DeviceAssignPass(g, roots, dflt) ==
    LET S == ReachFrom(g, Range(roots), {})
    IN  [o \in DOMAIN g |-> IF o \in S THEN DeviceAssign(g[o], dflt) ELSE g[o]]

\* the names DeviceAssignPass registers, in visiting order
AssignedNames(g, roots) ==
    LET order == AllOpReferences(g, roots)
    IN  Flatten([x \in 1..Len(order) |-> g[order[x]].transformer.v])

\* the recv node already bridging producer p to the device of consumer c
ExistingRecv(st, p, c) ==
    {r \in DOMAIN st.g :
        /\ st.g[r].kind = "recv"
        /\ st.g[r].transformer = st.g[c].transformer
        /\ st.g[r].send_node # 0
        /\ st.g[st.g[r].send_node].args = <<p>>
        /\ Contains(st.sends, st.g[r].send_node)}

\* CommunicationPass on one argument edge: position a of consumer c
BridgeEdge(st, c, a) ==
    LET p == st.g[c].args[a]
    IN  IF st.g[p].transformer = st.g[c].transformer THEN st
        ELSE IF ExistingRecv(st, p, c) # {}
        THEN LET r == CHOOSE x \in ExistingRecv(st, p, c) : TRUE
             IN  [st EXCEPT !.g[c].args[a] = r]
        ELSE LET s == Len(st.g) + 1
                 r == Len(st.g) + 2
                 send == [Node("send", <<p>>, st.g[p].device, st.g[p].device_id)
                             EXCEPT !.transformer = st.g[p].transformer]
                 recv == [Node("recv", <<>>, st.g[c].device, st.g[c].device_id)
                             EXCEPT !.transformer = st.g[c].transformer,
                                    !.send_node = s]
             IN  [g |-> [Append(Append(st.g, send), recv) EXCEPT ![c].args[a] = r],
                  sends |-> OrderedAdd(st.sends, s)]

RECURSIVE BridgeAll(_, _)
\* edges is a sequence of <<consumer, position>>
BridgeAll(st, edges) ==
    IF edges = <<>> THEN st
    ELSE BridgeAll(BridgeEdge(st, Head(edges)[1], Head(edges)[2]), Tail(edges))

\* CommunicationPass.do_pass over the closure of pass_ops
CommunicationPass(g, sends, roots) ==
    LET order == AllOpReferences(g, roots)
        edges == Flatten([x \in 1..Len(order) |->
                            [a \in 1..Len(g[order[x]].args) |-> <<order[x], a>>]])
    IN  BridgeAll([g |-> g, sends |-> sends], edges)

\* HetrTransformer.graph_passes (lines 208-212)
GraphPasses == <<"DeviceAssignPass", "CommunicationPass", "AxesUpdatePass">>

-----------------------------------------------------------------------------
(* HetrComputation.__init__, lines 121-128: the serialization loop *)

FlushNoTail(idx, n) == idx # 0 /\ idx % OPS_PER_MSG = 0

\* the condition under which the chunk in progress is appended (line 126)
Flush(idx, n) == (idx # 0 /\ idx % OPS_PER_MSG = 0) \/ (idx = n - 1)

\* one iteration of "for i, o in enumerate(whole_graph)" (lines 123-128) on
\* the loop state st = [pb_whole_graph, pb_ops, pb_edges, i]
SerializeIter(st, g, wg) ==
    LET o == wg[st.i + 1]
        nodes == Append(st.pb_ops, OpToProtobuf(g, o))
        edges == AddEdges(st.pb_edges, g, o)
    IN  IF Flush(st.i, Len(wg))
        THEN [pb_whole_graph |-> Append(st.pb_whole_graph, <<nodes, edges>>),
              pb_ops |-> <<>>, pb_edges |-> <<>>, i |-> st.i + 1]
        ELSE [pb_whole_graph |-> st.pb_whole_graph,
              pb_ops |-> nodes, pb_edges |-> edges, i |-> st.i + 1]

RECURSIVE SerializeAll(_, _, _)
\* the loop of lines 123-128, run to its end
SerializeAll(st, g, wg) ==
    IF st.i = Len(wg) THEN st ELSE SerializeAll(SerializeIter(st, g, wg), g, wg)

\* the serialization loop, one iteration at a time
SerializeStep ==
    /\ pc = "serialize"
    /\ i < Len(whole_graph)
    /\ LET st == SerializeIter([pb_whole_graph |-> pb_whole_graph, pb_ops |-> pb_ops,
                                pb_edges |-> pb_edges, i |-> i], ops, whole_graph)
       IN  /\ pb_whole_graph' = st.pb_whole_graph
           /\ pb_ops' = st.pb_ops
           /\ pb_edges' = st.pb_edges
           /\ i' = st.i
    /\ UNCHANGED <<graphVars, hetrVars, log, api, pc, pid, buildVars, k, comps,
                   callVars, whole_graph>>

Serialized == pc = "serialize" /\ i = Len(whole_graph)

\* a whole graph of n nodes: a placeholder followed by a chain of n - 1 ops
ChainGraph(n) ==
    [o \in 1..n |-> IF o = 1 THEN Node("param", <<>>, "cpu", IntMeta(0))
                    ELSE Node("op", <<o - 1>>, "cpu", IntMeta(0))]

NoComputation == [parameters |-> <<>>, shape |-> "none", returns |-> <<>>]

InitSerialize ==
    /\ \E n \in 0..MaxNodes :
         /\ ops = ChainGraph(n)
         /\ whole_graph = [o \in 1..n |-> o]
    /\ default_device = "cpu"
    /\ my_pid = 1
    /\ closers = NoClosers
    /\ is_closed = FALSE
    /\ child_transformers = <<>>
    /\ clients = <<>>
    /\ send_nodes = <<>>
    /\ mpilauncher = [launched |-> 0, closed |-> 0]
    /\ log = <<>>
    /\ api = <<>>
    /\ pc = "serialize"
    /\ pid = 1
    /\ computation_op = NoComputation
    /\ returns = <<>>
    /\ new_returns = <<>>
    /\ pass_ops = <<>>
    /\ pb_whole_graph = <<>>
    /\ pb_ops = <<>>
    /\ pb_edges = <<>>
    /\ i = 0
    /\ t_placeholders = <<>>
    /\ t_returns = <<>>
    /\ child_computations = <<>>
    /\ k = 0
    /\ comps = <<>>
    /\ cur = 0
    /\ args = <<>>
    /\ return_vals = <<>>
    /\ result = <<>>

NextSerialize == SerializeStep

SpecSerialize == InitSerialize /\ [][NextSerialize]_vars

-----------------------------------------------------------------------------
(* The user's graph and the computations declared over it *)

\* device_id hints a user may put on the nodes: none, one device, several
ParamHints == {NoMeta, ListMeta(<<0, 1>>)}
TensorHints == {NoMeta, IntMeta(1)}
ReturnHints == {IntMeta(1), ListMeta(<<0, 1>>)}

\* 1: placeholder P; 2: assignable tensor T; 3: TensorValueOp Q reading T;
\* 4: A = f(P, Q); 5: B = g(A)
UserGraph(hP, hT, hA, hB) ==
    << Node("param", <<>>, "none", hP),
       Node("assignable", <<>>, "none", hT),
       [Node("tensor_value", <<>>, "none", NoMeta) EXCEPT !.states_read = <<2>>],
       Node("op", <<1, 3>>, "none", hA),
       Node("op", <<4>>, "none", hB) >>

Computation(params, shape, rets) ==
    [parameters |-> params, shape |-> shape, returns |-> rets]

\* ComputationOp declarations: returns is a single Op, a sequence or a set
Computations ==
    { Computation(<<1, 3>>, "op", <<5>>),
      Computation(<<1, 3>>, "seq", <<5, 4, 5>>),
      Computation(<<3, 1>>, "set", <<4, 5>>) }

\* argument tuples of an invocation of a two-parameter computation
ArgTuples == {<<10, 20>>, <<20, 10>>}

Launcher == TName("mpilauncher", 0)

\* the number of the operation in progress
nops == Len(api)

ApiCall(kind, p) == [kind |-> kind, pid |-> p]

Call(name, to, arg) == [op |-> nops, call |-> name, to |-> to, arg |-> arg]

Init ==
    /\ \E hP \in ParamHints, hT \in TensorHints, hA \in TensorHints, hB \in ReturnHints :
         ops = UserGraph(hP, hT, hA, hB)
    /\ default_device \in {"cpu", "gpu"}
    /\ my_pid = 1
    /\ closers = NoClosers
    /\ is_closed = FALSE
    /\ child_transformers = <<>>
    /\ clients = <<>>
    /\ send_nodes = <<>>
    /\ mpilauncher = [launched |-> 0, closed |-> 0]
    /\ log = <<>>
    /\ api = <<>>
    /\ pc = "idle"
    /\ pid = 1
    /\ computation_op = NoComputation
    /\ returns = <<>>
    /\ new_returns = <<>>
    /\ pass_ops = <<>>
    /\ whole_graph = <<>>
    /\ pb_whole_graph = <<>>
    /\ pb_ops = <<>>
    /\ pb_edges = <<>>
    /\ i = 0
    /\ t_placeholders = <<>>
    /\ t_returns = <<>>
    /\ child_computations = <<>>
    /\ k = 0
    /\ comps = <<>>
    /\ cur = 0
    /\ args = <<>>
    /\ return_vals = <<>>
    /\ result = <<>>

-----------------------------------------------------------------------------
(* HetrTransformer.make_computation -> HetrComputation.__init__ *)

\* lines 63-74: the fields of the new HetrComputation; self.returns
MakeComputation(c) ==
    /\ pc = "idle"
    /\ nops < MaxOperations
    /\ Len(comps) < MaxBuilds
    /\ api' = Append(api, ApiCall("make_computation", my_pid))
    /\ computation_op' = c
    /\ child_computations' = <<>>
    /\ returns' = IF c.shape \in {"seq", "set", "op"}
                  THEN OrderedUnion(<<>>, c.returns) ELSE <<>>
    /\ new_returns' = <<>>
    /\ pass_ops' = <<>>
    /\ t_placeholders' = <<>>
    /\ t_returns' = <<>>
    /\ pc' = "wrap"
    /\ UNCHANGED <<graphVars, hetrVars, log, pid, serdeVars, k, comps, callVars>>

\* no return is taken to be split: the wrapping of lines 80-86 never happens
IsSplitNever(op) == FALSE

\* lines 80-81: 'device_id' in op.metadata and it is a list or tuple
IsSplit(op) == op.device_id.tag = "list"

RECURSIVE WrapAll(_, _)
\* lines 78-88 over the remaining returns rs; st = [g, new_returns]
WrapAll(st, rs) ==
    IF rs = <<>> THEN st
    ELSE LET op == Head(rs)
             w == Len(st.g) + 1
             wrapper == [Node("result", <<op>>, "none", IntMeta(0))
                            EXCEPT !.replaces_op = op]
         IN  IF IsSplit(st.g[op])
             THEN WrapAll([g |-> Append([st.g EXCEPT ![op].is_split_op = TRUE,
                                                     ![op].hetr_replaced_by = w],
                                        wrapper),
                           new_returns |-> OrderedAdd(st.new_returns, w)],
                          Tail(rs))
             ELSE WrapAll([st EXCEPT !.new_returns = OrderedAdd(@, op)], Tail(rs))

\* lines 76-91: gather wrappers for split returns; the initial pass_ops
WrapReturns ==
    /\ pc = "wrap"
    /\ LET st == WrapAll([g |-> ops, new_returns |-> <<>>], returns)
       IN  /\ ops' = st.g
           /\ new_returns' = st.new_returns
           /\ pass_ops' = OrderedUnion(st.new_returns,
                                       OrderedUnion(<<>>, computation_op.parameters))
    /\ k' = 0
    /\ pc' = "passes"
    /\ UNCHANGED <<send_nodes, hetrVars, log, api, pid, serdeVars, computation_op,
                   returns, t_placeholders, t_returns, child_computations, comps,
                   callVars>>

\* lines 92-94: one iteration of the loop over graph_passes
DoPass ==
    /\ pc = "passes"
    /\ k < Len(GraphPasses)
    /\ LET roots == OrderedUnion(pass_ops, send_nodes)
           name == GraphPasses[k + 1]
       IN  /\ pass_ops' = roots
           /\ IF name = "DeviceAssignPass"
              THEN LET g == DeviceAssignPass(ops, roots, default_device)
                       reg == RegisterAll([names |-> child_transformers,
                                           clients |-> clients, err |-> FALSE],
                                          AssignedNames(g, roots))
                   IN  /\ ops' = g
                       /\ child_transformers' = reg.names
                       /\ clients' = reg.clients
                       /\ pc' = IF reg.err THEN "raised" ELSE "passes"
                       /\ UNCHANGED send_nodes
              ELSE IF name = "CommunicationPass"
              THEN LET st == CommunicationPass(ops, send_nodes, roots)
                   IN  /\ ops' = st.g
                       /\ send_nodes' = st.sends
                       /\ UNCHANGED <<child_transformers, clients, pc>>
              ELSE UNCHANGED <<ops, send_nodes, child_transformers, clients, pc>>
    /\ k' = k + 1
    /\ UNCHANGED <<default_device, my_pid, closers, is_closed, mpilauncher, log, api, pid,
                   serdeVars, computation_op, returns, new_returns, t_placeholders,
                   t_returns, child_computations, comps, callVars>>

\* metadata.update(other): every key of other overrides
MetadataUpdate(op, other) ==
    [op EXCEPT
        !.device = IF other.device # "none" THEN other.device ELSE @,
        !.device_id = IF other.device_id.tag # "none" THEN other.device_id ELSE @,
        !.transformer = IF other.transformer.tag # "none" THEN other.transformer ELSE @,
        !.is_split_op = IF other.is_split_op THEN TRUE ELSE @,
        !.hetr_replaced_by = IF other.hetr_replaced_by # 0 THEN other.hetr_replaced_by ELSE @,
        !.replaces_op = IF other.replaces_op # 0 THEN other.replaces_op ELSE @]

\* lines 96-100: a TensorValueOp parameter takes the metadata of its tensor
TensorValueHack ==
    /\ pc = "passes"
    /\ k = Len(GraphPasses)
    /\ ops' = [o \in DOMAIN ops |->
                 IF Contains(computation_op.parameters, o) /\ ops[o].kind = "tensor_value"
                 THEN MetadataUpdate(ops[o], ops[ops[o].states_read[1]])
                 ELSE ops[o]]
    /\ pc' = "launch"
    /\ UNCHANGED <<send_nodes, hetrVars, log, api, pid, serdeVars, buildVars, k,
                   comps, callVars>>

\* lines 102-106: start the worker processes
\* the launch put off: nothing is started on line 106
LaunchPutOff ==
    /\ pc = "launch"
    /\ pc' = "setup"
    /\ UNCHANGED <<graphVars, hetrVars, log, api, pid, serdeVars, buildVars, k,
                   comps, callVars>>

Launch ==
    /\ pc = "launch"
    /\ LET num_process == Len(child_transformers)
           ppn == IF default_device = "cpu" THEN 1 ELSE num_process
       IN  /\ mpilauncher' = [mpilauncher EXCEPT !.launched = @ + 1]
           /\ log' = Append(log, Call("launch", Launcher, <<num_process, ppn>>))
    /\ pc' = "setup"
    /\ UNCHANGED <<graphVars, default_device, my_pid, closers, is_closed, child_transformers,
                   clients, api, pid, serdeVars, buildVars, k, comps, callVars>>

\* MPILauncher.get_address_by_rank
GetAddressByRank(dev_id, num_servers) == dev_id

\* HetrTransformer.setup_child_transformers (lines 240-247), called on line 107
SetupChildTransformers ==
    /\ pc = "setup"
    /\ LET num_servers == Len(child_transformers)
       IN  /\ clients' = [n \in DOMAIN clients |->
                 [clients[n] EXCEPT !.server_address = GetAddressByRank(n.id, num_servers)]]
           /\ log' = log \o [x \in 1..Len(child_transformers) |->
                 Call("set_server_address", child_transformers[x],
                      GetAddressByRank(child_transformers[x].id, num_servers))]
    /\ pc' = "closure"
    /\ UNCHANGED <<graphVars, default_device, my_pid, closers, is_closed, child_transformers,
                   mpilauncher, api, pid, serdeVars, buildVars, k, comps, callVars>>

\* the returns of the computation alone: line 117 without self.send_nodes
AllReturnsOwn == new_returns

\* all_returns (line 117); send_nodes and new_returns do not change after it
AllReturns == OrderedUnion(send_nodes, new_returns)

\* r.args[0] if isinstance(r, ResultOp) else r (lines 118 and 142-143)
Unwrap(g, rs) ==
    [x \in 1..Len(rs) |-> IF g[rs[x]].kind = "result" THEN g[rs[x]].args[1] ELSE rs[x]]

\* lines 113-128: the whole graph, serialized into chunks
WholeGraph ==
    /\ pc = "closure"
    /\ LET wg == AllOpReferences(ops, Unwrap(ops, AllReturns) \o computation_op.parameters)
           st == SerializeAll([pb_whole_graph |-> <<>>, pb_ops |-> <<>>,
                               pb_edges |-> <<>>, i |-> 0], ops, wg)
       IN  /\ whole_graph' = wg
           /\ pb_whole_graph' = st.pb_whole_graph
           /\ pb_ops' = st.pb_ops
           /\ pb_edges' = st.pb_edges
           /\ i' = st.i
    /\ pc' = "partition"
    /\ UNCHANGED <<graphVars, hetrVars, log, api, pid, buildVars, k, comps, callVars>>

\* [x for x in xs if is_my_op(x, t_name)]
Mine(g, xs, t_name) == SeqFilter(xs, {x \in Range(xs) : IsMyOp(g[x], t_name)})

\* lines 130-133: the parameters and returns of every child transformer
\* the partition leaving out the nodes without 'transformer' metadata
PartitionSkipping ==
    /\ pc = "partition"
    /\ LET resolved(xs) == SeqFilter(xs, {x \in Range(xs) : HasTransformer(ops[x])})
       IN  /\ t_placeholders' = [n \in Range(child_transformers) |->
                                   Mine(ops, resolved(computation_op.parameters), n)]
           /\ t_returns' = [n \in Range(child_transformers) |->
                               Mine(ops, resolved(AllReturns), n)]
    /\ pc' = "create"
    /\ k' = 0
    /\ UNCHANGED <<graphVars, hetrVars, log, api, pid, serdeVars, computation_op,
                   returns, new_returns, pass_ops, child_computations, comps,
                   callVars>>

\* lines 130-133; is_my_op raises KeyError on a node without the metadata
Partition ==
    /\ pc = "partition"
    /\ IF \/ child_transformers = <<>>
          \/ \A x \in Range(computation_op.parameters) \cup Range(AllReturns) :
                HasTransformer(ops[x])
       THEN /\ t_placeholders' = [n \in Range(child_transformers) |->
                                    Mine(ops, computation_op.parameters, n)]
            /\ t_returns' = [n \in Range(child_transformers) |-> Mine(ops, AllReturns, n)]
            /\ pc' = "create"
       ELSE /\ pc' = "raised"     \* KeyError: 'transformer'
            /\ UNCHANGED <<t_placeholders, t_returns>>
    /\ k' = 0
    /\ UNCHANGED <<graphVars, hetrVars, log, api, pid, serdeVars, computation_op,
                   returns, new_returns, pass_ops, child_computations, comps,
                   callVars>>

\* creation that waits for the worker before turning to the next one
CreateAndGetComputation ==
    /\ pc = "create"
    /\ k < Len(child_transformers)
    /\ LET t_name == child_transformers[k + 1]
           transform_ops == Unwrap(ops, t_returns[t_name])
       IN  /\ clients' = [clients EXCEPT ![t_name].built = @ + 1,
                                         ![t_name].created = @ + 1]
           /\ log' = log \o
                << Call("build_transformer", t_name, <<>>),
                   Call("create_computation", t_name,
                        [graph |-> pb_whole_graph, returns |-> transform_ops,
                         placeholders |-> t_placeholders[t_name]]),
                   Call("get_computation", t_name, <<>>) >>
    /\ k' = k + 1
    /\ UNCHANGED <<graphVars, default_device, my_pid, closers, is_closed, child_transformers,
                   mpilauncher, api, pc, pid, serdeVars, buildVars, comps, callVars>>

\* lines 139-144: one iteration of the creation loop
CreateComputation ==
    /\ pc = "create"
    /\ k < Len(child_transformers)
    /\ LET t_name == child_transformers[k + 1]
           transform_ops == Unwrap(ops, t_returns[t_name])
       IN  /\ clients' = [clients EXCEPT ![t_name].built = @ + 1,
                                         ![t_name].created = @ + 1]
           /\ log' = log \o
                << Call("build_transformer", t_name, <<>>),
                   Call("create_computation", t_name,
                        [graph |-> pb_whole_graph, returns |-> transform_ops,
                         placeholders |-> t_placeholders[t_name]]) >>
    /\ k' = k + 1
    /\ UNCHANGED <<graphVars, default_device, my_pid, closers, is_closed, child_transformers,
                   mpilauncher, api, pc, pid, serdeVars, buildVars, comps, callVars>>

CreateDone ==
    /\ pc = "create"
    /\ k = Len(child_transformers)
    /\ k' = 0
    /\ pc' = "get"
    /\ UNCHANGED <<graphVars, hetrVars, log, api, pid, serdeVars, buildVars, comps,
                   callVars>>

\* positions counted in the worker's own parameter list
ParamIdxLocal(g, params, t_name) ==
    [x \in 1..Len(SeqFilter(params, {y \in Range(params) : IsMyOp(g[y], t_name)})) |-> x - 1]

\* [g_pos for g_pos, p in enumerate(parameters) if is_my_op(p, t_name)] (lines 148-149)
ParamIdx(g, params, t_name) ==
    SeqFilter([x \in 1..Len(params) |-> x - 1],
              {x - 1 : x \in {y \in 1..Len(params) : IsMyOp(g[params[y]], t_name)}})

\* the caller-visible key under which position op of t_returns is recorded
\* (lines 154-157): the wrapped node stands for its wrapper; 0 when none
ReturnKeyOfWrapper(g, rets, op) ==
    IF Contains(rets, op) /\ g[op].hetr_replaced_by = 0 THEN op
    ELSE IF g[op].replaces_op # 0 /\ Contains(rets, g[op].replaces_op) THEN op
    ELSE 0

ReturnKey(g, rets, op) ==
    IF Contains(rets, op) /\ g[op].hetr_replaced_by = 0 THEN op
    ELSE IF g[op].replaces_op # 0 /\ Contains(rets, g[op].replaces_op)
         THEN g[op].replaces_op
         ELSE 0

\* the slots counted from one: the mapping of lines 152-157 with i + 1 for i
CompReturnsFromOne(g, rets, trs, x, acc) ==
    LET keyAt(y) == ReturnKey(g, rets, trs[y])
        keys == {keyAt(y) : y \in x..Len(trs)} \ {0}
        last(key) == CHOOSE y \in x..Len(trs) :
                        keyAt(y) = key /\ \A z \in x..Len(trs) : keyAt(z) = key => z <= y
    IN  [key \in DOMAIN acc \cup keys |-> IF key \in keys THEN last(key) ELSE acc[key]]

RECURSIVE CompReturns(_, _, _, _, _)
\* lines 152-157: comp.returns, a dict from return node to slot, built over
\* enumerate(t_returns[t_name]) from position x on
CompReturns(g, rets, trs, x, acc) ==
    IF x > Len(trs) THEN acc
    ELSE LET key == ReturnKey(g, rets, trs[x])
         IN  CompReturns(g, rets, trs, x + 1,
                 IF key = 0 THEN acc
                 ELSE [y \in DOMAIN acc \cup {key} |->
                          IF y = key THEN x - 1 ELSE acc[y]])

\* lines 146-158: one iteration of the materialization loop
GetComputation ==
    /\ pc = "get"
    /\ k < Len(child_transformers)
    /\ LET t_name == child_transformers[k + 1]
           comp == [name |-> t_name,
                    transform_ops |-> Unwrap(ops, t_returns[t_name]),
                    param_idx |-> ParamIdx(ops, computation_op.parameters, t_name),
                    returns |-> CompReturns(ops, returns, t_returns[t_name], 1, <<>>)]
       IN  /\ child_computations' = Append(child_computations, comp)
           /\ log' = Append(log, Call("get_computation", t_name, <<>>))
    /\ k' = k + 1
    /\ UNCHANGED <<graphVars, hetrVars, api, pc, pid, serdeVars, computation_op,
                   returns, new_returns, pass_ops, t_placeholders, t_returns, comps,
                   callVars>>

\* line 159 and make_computation's return (lines 268-269)
BuildDone ==
    /\ pc = "get"
    /\ k = Len(child_transformers)
    /\ comps' = Append(comps, [computation_op |-> computation_op,
                               returns |-> returns,
                               child_computations |-> child_computations,
                               built_by |-> nops])
    /\ k' = 0
    /\ pc' = "idle"
    /\ UNCHANGED <<graphVars, hetrVars, log, api, pid, serdeVars, buildVars, callVars>>

-----------------------------------------------------------------------------
(* HetrComputation.__call__ *)

\* line 169: unpack the arguments of an invocation of comps[c]
CallComputation(c, a) ==
    /\ pc = "idle"
    /\ nops < MaxOperations
    /\ api' = Append(api, ApiCall("call", my_pid))
    /\ cur' = c
    /\ args' = a
    /\ return_vals' = <<>>
    /\ result' = <<>>
    /\ k' = 0
    /\ pc' = "feed"
    /\ UNCHANGED <<graphVars, hetrVars, log, pid, serdeVars, buildVars, comps>>

\* child.get_results(): one value per key of comp.returns, taken from its
\* slot: the value of the op at that position of the ops-to-return list
GetResults(child) ==
    [op \in DOMAIN child.returns |->
        [from |-> child.name, slot |-> child.returns[op],
         of |-> child.transform_ops[child.returns[op] + 1]]]

\* dict.update
DictUpdate(d, e) ==
    [x \in DOMAIN d \cup DOMAIN e |-> IF x \in DOMAIN e THEN e[x] ELSE d[x]]

\* feeding that collects the worker's results before turning to the next one
FeedAndCollect ==
    /\ pc = "feed"
    /\ k < Len(comps[cur].child_computations)
    /\ LET child == comps[cur].child_computations[k + 1]
           values == [x \in 1..Len(child.param_idx) |-> args[child.param_idx[x] + 1]]
       IN  /\ clients' = [clients EXCEPT ![child.name].fed = values]
           /\ return_vals' = DictUpdate(return_vals, GetResults(child))
           /\ log' = log \o << Call("feed_input", child.name, values),
                               Call("get_results", child.name, <<>>) >>
    /\ k' = k + 1
    /\ UNCHANGED <<graphVars, default_device, my_pid, closers, is_closed, child_transformers,
                   mpilauncher, api, pc, pid, serdeVars, buildVars, comps, cur, args,
                   result>>

\* lines 170-171: one iteration of the feeding loop
FeedInput ==
    /\ pc = "feed"
    /\ k < Len(comps[cur].child_computations)
    /\ LET child == comps[cur].child_computations[k + 1]
           values == [x \in 1..Len(child.param_idx) |-> args[child.param_idx[x] + 1]]
       IN  /\ clients' = [clients EXCEPT ![child.name].fed = values]
           /\ log' = Append(log, Call("feed_input", child.name, values))
    /\ k' = k + 1
    /\ UNCHANGED <<graphVars, default_device, my_pid, closers, is_closed, child_transformers,
                   mpilauncher, api, pc, pid, serdeVars, buildVars, comps, callVars>>

\* line 173
FeedDone ==
    /\ pc = "feed"
    /\ k = Len(comps[cur].child_computations)
    /\ return_vals' = <<>>
    /\ k' = 0
    /\ pc' = "collect"
    /\ UNCHANGED <<graphVars, hetrVars, log, api, pid, serdeVars, buildVars, comps,
                   cur, args, result>>

\* lines 174-175: one iteration of the collection loop
CollectResults ==
    /\ pc = "collect"
    /\ k < Len(comps[cur].child_computations)
    /\ LET child == comps[cur].child_computations[k + 1]
       IN  /\ return_vals' = DictUpdate(return_vals, GetResults(child))
           /\ log' = Append(log, Call("get_results", child.name, <<>>))
    /\ k' = k + 1
    /\ UNCHANGED <<graphVars, hetrVars, api, pc, pid, serdeVars, buildVars, comps,
                   cur, args, result>>

KeyError == [tag |-> "KeyError", v |-> <<>>]

\* a sequence rebuilt from the de-duplicated self.returns
ReshapeDedup(decl, vals) ==
    LET rs == OrderedUnion(<<>>, decl.returns)
    IN  IF decl.shape = "op"
        THEN IF decl.returns[1] \in DOMAIN vals
             THEN [tag |-> "value", v |-> vals[decl.returns[1]]]
             ELSE KeyError
        ELSE IF decl.shape = "seq"
        THEN IF Range(rs) \subseteq DOMAIN vals
             THEN [tag |-> "tuple", v |-> [x \in 1..Len(rs) |-> vals[rs[x]]]]
             ELSE KeyError
        ELSE IF decl.shape = "set"
        THEN [tag |-> "table", v |-> vals]
        ELSE [tag |-> "None", v |-> <<>>]

\* lines 176-183: the merged values in the shape of the declared returns
Reshape(decl, vals) ==
    IF decl.shape = "op"
    THEN IF decl.returns[1] \in DOMAIN vals
         THEN [tag |-> "value", v |-> vals[decl.returns[1]]]
         ELSE KeyError
    ELSE IF decl.shape = "seq"
    THEN IF Range(decl.returns) \subseteq DOMAIN vals
         THEN [tag |-> "tuple", v |-> [x \in 1..Len(decl.returns) |-> vals[decl.returns[x]]]]
         ELSE KeyError
    ELSE IF decl.shape = "set"
    THEN [tag |-> "table", v |-> vals]
    ELSE [tag |-> "None", v |-> <<>>]

Return ==
    /\ pc = "collect"
    /\ k = Len(comps[cur].child_computations)
    /\ result' = Reshape(comps[cur].computation_op, return_vals)
    /\ k' = 0
    /\ pc' = "idle"
    /\ UNCHANGED <<graphVars, hetrVars, log, api, pid, serdeVars, buildVars, comps,
                   cur, args, return_vals>>

-----------------------------------------------------------------------------
(* HetrTransformer.close *)

\* close without the is_closed guard of lines 216-217
CloseNoClosedGuard(p) ==
    /\ pc = "idle"
    /\ nops < MaxOperations
    /\ api' = Append(api, ApiCall("close", p))
    /\ pid' = p
    /\ k' = 0
    /\ pc' = IF my_pid # p THEN "idle" ELSE "close_transformer"
    /\ UNCHANGED <<graphVars, hetrVars, log, serdeVars, buildVars, comps, callVars>>

\* close without the pid guard of lines 218-220
CloseNoPidGuard(p) ==
    /\ pc = "idle"
    /\ nops < MaxOperations
    /\ api' = Append(api, ApiCall("close", p))
    /\ pid' = p
    /\ k' = 0
    /\ pc' = IF is_closed THEN "idle" ELSE "close_transformer"
    /\ UNCHANGED <<graphVars, hetrVars, log, serdeVars, buildVars, comps, callVars>>

\* close that marks the transformer closed on entry, ahead of the close calls
CloseMarkingFirst(p) ==
    /\ pc = "idle"
    /\ nops < MaxOperations
    /\ api' = Append(api, ApiCall("close", p))
    /\ pid' = p
    /\ k' = 0
    /\ pc' = IF is_closed THEN "idle"
             ELSE IF my_pid # p THEN "idle"
             ELSE "close_transformer"
    /\ is_closed' = (is_closed \/ my_pid = p)
    /\ UNCHANGED <<graphVars, default_device, my_pid, closers, child_transformers,
                   clients, mpilauncher, log, serdeVars, buildVars, comps, callVars>>

\* lines 216-220: the two guards, in the process whose pid is p
Close(p) ==
    /\ pc = "idle"
    /\ nops < MaxOperations
    /\ api' = Append(api, ApiCall("close", p))
    /\ pid' = p
    /\ k' = 0
    /\ pc' = IF is_closed THEN "idle"
             ELSE IF my_pid # p THEN "idle"
             ELSE "close_transformer"
    /\ UNCHANGED <<graphVars, hetrVars, log, serdeVars, buildVars, comps, callVars>>

\* lines 221-222: one iteration of the first loop
CloseTransformer ==
    /\ pc = "close_transformer"
    /\ k < Len(child_transformers)
    /\ LET t == child_transformers[k + 1]
       IN  /\ clients' = [clients EXCEPT ![t].closed_transformer = @ + 1]
           /\ log' = Append(log, Call("close_transformer", t, <<>>))
    /\ k' = k + 1
    /\ UNCHANGED <<graphVars, default_device, my_pid, closers, is_closed, child_transformers,
                   mpilauncher, api, pc, pid, serdeVars, buildVars, comps, callVars>>

\* the launcher released between the two loops, before the clients are closed
CloseTransformerDoneReleasing ==
    /\ pc = "close_transformer"
    /\ k = Len(child_transformers)
    /\ mpilauncher' = [mpilauncher EXCEPT !.closed = @ + 1]
    /\ log' = Append(log, Call("close", Launcher, <<>>))
    /\ k' = 0
    /\ pc' = "close_client"
    /\ UNCHANGED <<graphVars, default_device, my_pid, closers, is_closed, child_transformers,
                   clients, api, pid, serdeVars, buildVars, comps, callVars>>

CloseTransformerDone ==
    /\ pc = "close_transformer"
    /\ k = Len(child_transformers)
    /\ k' = 0
    /\ pc' = "close_client"
    /\ UNCHANGED <<graphVars, hetrVars, log, api, pid, serdeVars, buildVars, comps,
                   callVars>>

\* lines 223-224: one iteration of the second loop
CloseClient ==
    /\ pc = "close_client"
    /\ k < Len(child_transformers)
    /\ LET t == child_transformers[k + 1]
       IN  /\ clients' = [clients EXCEPT ![t].closed = @ + 1]
           /\ log' = Append(log, Call("close", t, <<>>))
    /\ k' = k + 1
    /\ UNCHANGED <<graphVars, default_device, my_pid, closers, is_closed, child_transformers,
                   mpilauncher, api, pc, pid, serdeVars, buildVars, comps, callVars>>

\* line 225
CloseLauncher ==
    /\ pc = "close_client"
    /\ k = Len(child_transformers)
    /\ mpilauncher' = [mpilauncher EXCEPT !.closed = @ + 1]
    /\ log' = Append(log, Call("close", Launcher, <<>>))
    /\ k' = 0
    /\ pc' = "close_mark"
    /\ UNCHANGED <<graphVars, default_device, my_pid, closers, is_closed, child_transformers,
                   clients, api, pid, serdeVars, buildVars, comps, callVars>>

\* lines 226-227
MarkClosed ==
    /\ pc = "close_mark"
    /\ is_closed' = TRUE
    /\ pc' = "idle"
    /\ UNCHANGED <<graphVars, default_device, my_pid, closers, child_transformers, clients,
                   mpilauncher, log, api, pid, serdeVars, buildVars, k, comps,
                   callVars>>

-----------------------------------------------------------------------------

Next ==
    \/ \E c \in Computations : MakeComputation(c)
    \/ WrapReturns
    \/ DoPass
    \/ TensorValueHack
    \/ Launch
    \/ SetupChildTransformers
    \/ WholeGraph
    \/ Partition
    \/ CreateComputation
    \/ CreateDone
    \/ GetComputation
    \/ BuildDone
    \/ \E c \in 1..Len(comps), a \in ArgTuples : CallComputation(c, a)
    \/ FeedInput
    \/ FeedDone
    \/ CollectResults
    \/ Return
    \/ \E p \in Pids : Close(p)
    \/ CloseTransformer
    \/ CloseTransformerDone
    \/ CloseClient
    \/ CloseLauncher
    \/ MarkClosed

Spec == Init /\ [][Next]_vars

-----------------------------------------------------------------------------
(* Builds over graphs with more device names: two-digit device ids, a
   parameter read on two devices, a device word that is neither cpu nor gpu *)

DeviceParamHints == {NoMeta, IntMeta(10), ListMeta(<<0, 1>>)}
DeviceOpHints == {NoMeta, IntMeta(1)}
DeviceReturnHints == {IntMeta(1), IntMeta(10)}
DeviceWords == {"none", "tpu", "unresolved"}
\* the device word the user puts on the whole graph: none, or one kind of worker
FleetWords == {"none", "cpu", "gpu"}

\* 1: placeholder P; 2: assignable tensor T; 3: TensorValueOp Q reading T;
\* 4: A = f(P, Q); 5: B = g(A, P); all under device word d, B with a device
\* word of its own when dB is one
DeviceGraph(hP, hA, hB, d, dB) ==
    << Node("param", <<>>, d, hP),
       Node("assignable", <<>>, d, NoMeta),
       [Node("tensor_value", <<>>, d, NoMeta) EXCEPT !.states_read = <<2>>],
       Node("op", <<1, 3>>, d, hA),
       Node("op", <<4, 1>>, IF dB = "none" THEN d ELSE dB, hB) >>

InitDevices ==
    /\ \E hP \in DeviceParamHints, hA \in DeviceOpHints, hB \in DeviceReturnHints,
          d \in FleetWords, dB \in DeviceWords :
         ops = DeviceGraph(hP, hA, hB, d, dB)
    /\ default_device \in {"cpu", "gpu"}
    /\ my_pid = 1
    /\ closers = NoClosers
    /\ is_closed = FALSE
    /\ child_transformers = <<>>
    /\ clients = <<>>
    /\ send_nodes = <<>>
    /\ mpilauncher = [launched |-> 0, closed |-> 0]
    /\ log = <<>>
    /\ api = <<>>
    /\ pc = "idle"
    /\ pid = 1
    /\ computation_op = NoComputation
    /\ returns = <<>>
    /\ new_returns = <<>>
    /\ pass_ops = <<>>
    /\ whole_graph = <<>>
    /\ pb_whole_graph = <<>>
    /\ pb_ops = <<>>
    /\ pb_edges = <<>>
    /\ i = 0
    /\ t_placeholders = <<>>
    /\ t_returns = <<>>
    /\ child_computations = <<>>
    /\ k = 0
    /\ comps = <<>>
    /\ cur = 0
    /\ args = <<>>
    /\ return_vals = <<>>
    /\ result = <<>>

\* line 267: an exception raised inside HetrComputation.__init__ leaves
\* make_computation without a HetrComputation being returned
MakeComputationRaises ==
    /\ pc = "raised"
    /\ pc' = "idle"
    /\ UNCHANGED <<graphVars, hetrVars, log, api, pid, serdeVars, buildVars, k,
                   comps, callVars>>

\* the computations of Computations and one that does not reach node 5
DeviceComputations == Computations \cup {Computation(<<1, 3>>, "op", <<4>>)}

NextDevices ==
    \/ \E c \in DeviceComputations : MakeComputation(c)
    \/ WrapReturns
    \/ DoPass
    \/ TensorValueHack
    \/ Launch
    \/ SetupChildTransformers
    \/ WholeGraph
    \/ Partition
    \/ CreateComputation
    \/ CreateDone
    \/ GetComputation
    \/ BuildDone
    \/ MakeComputationRaises

SpecDevices == InitDevices /\ [][NextDevices]_vars

-----------------------------------------------------------------------------
(* Builds and invocations in which a call to a worker may raise.  Neither
   HetrComputation.__init__ nor __call__ has a try statement: the exception
   of a worker call ends the loop it is raised in and leaves the method. *)

\* the log entry of an exception raised by call c to worker t; pending are
\* the workers left fed and not collected
Raise(c, t, pending) ==
    [op |-> nops, call |-> "raise", to |-> t,
     arg |-> [during |-> c, comp |-> cur, pending |-> pending]]

\* lines 141-144: build_transformer / create_computation of one worker raises
CreateComputationFails ==
    /\ pc = "create"
    /\ k < Len(child_transformers)
    /\ LET t_name == child_transformers[k + 1]
       IN  log' = log \o
                << Call("build_transformer", t_name, <<>>),
                   Call("create_computation", t_name,
                        [graph |-> pb_whole_graph,
                         returns |-> Unwrap(ops, t_returns[t_name]),
                         placeholders |-> t_placeholders[t_name]]),
                   Raise("create_computation", t_name, {}) >>
    /\ pc' = "raised"
    /\ UNCHANGED <<graphVars, hetrVars, api, pid, serdeVars, buildVars, k, comps,
                   callVars>>

\* the exception of get_computation caught and the loop carried on: the
\* worker is left out of child_computations
GetComputationFailsSwallowed ==
    /\ pc = "get"
    /\ k < Len(child_transformers)
    /\ LET t_name == child_transformers[k + 1]
       IN  log' = log \o << Call("get_computation", t_name, <<>>),
                            Raise("get_computation", t_name, {}) >>
    /\ k' = k + 1
    /\ UNCHANGED <<graphVars, hetrVars, api, pc, pid, serdeVars, buildVars, comps,
                   callVars>>

\* line 147: get_computation of one worker raises
GetComputationFails ==
    /\ pc = "get"
    /\ k < Len(child_transformers)
    /\ LET t_name == child_transformers[k + 1]
       IN  log' = log \o << Call("get_computation", t_name, <<>>),
                            Raise("get_computation", t_name, {}) >>
    /\ pc' = "raised"
    /\ UNCHANGED <<graphVars, hetrVars, api, pid, serdeVars, buildVars, k, comps,
                   callVars>>

\* the names of children x..y of the computation being invoked
ChildNames(x, y) == {comps[cur].child_computations[z].name : z \in x..y}

\* line 171: feed_input of one child raises; the children before it are fed
FeedInputFails ==
    /\ pc = "feed"
    /\ k < Len(comps[cur].child_computations)
    /\ LET child == comps[cur].child_computations[k + 1]
           values == [x \in 1..Len(child.param_idx) |-> args[child.param_idx[x] + 1]]
       IN  log' = log \o << Call("feed_input", child.name, values),
                            Raise("feed_input", child.name, ChildNames(1, k)) >>
    /\ pc' = "call_raised"
    /\ UNCHANGED <<graphVars, hetrVars, api, pid, serdeVars, buildVars, k, comps,
                   callVars>>

\* line 175: get_results of one child raises; the children after it stay fed
CollectResultsFails ==
    /\ pc = "collect"
    /\ k < Len(comps[cur].child_computations)
    /\ LET child == comps[cur].child_computations[k + 1]
       IN  log' = log \o
                << Call("get_results", child.name, <<>>),
                   Raise("get_results", child.name,
                         ChildNames(k + 2, Len(comps[cur].child_computations))) >>
    /\ pc' = "call_raised"
    /\ UNCHANGED <<graphVars, hetrVars, api, pid, serdeVars, buildVars, k, comps,
                   callVars>>

\* lines 161-175: the exception leaves __call__ and reaches its caller
CallRaises ==
    /\ pc = "call_raised"
    /\ result' = [tag |-> "raise", v |-> log[Len(log)].arg.during]
    /\ k' = 0
    /\ pc' = "idle"
    /\ UNCHANGED <<graphVars, hetrVars, log, api, pid, serdeVars, buildVars, comps,
                   cur, args, return_vals>>

\* two cpu workers; the last node on one device or split over both
InitFaults ==
    /\ Init
    /\ default_device = "cpu"
    /\ \E hB \in ReturnHints : ops = UserGraph(NoMeta, NoMeta, IntMeta(1), hB)

NextFaults ==
    \/ \E c \in Computations : MakeComputation(c)
    \/ WrapReturns
    \/ DoPass
    \/ TensorValueHack
    \/ Launch
    \/ SetupChildTransformers
    \/ WholeGraph
    \/ Partition
    \/ CreateComputation
    \/ CreateDone
    \/ GetComputation
    \/ BuildDone
    \/ \E c \in 1..Len(comps), a \in ArgTuples : CallComputation(c, a)
    \/ FeedInput
    \/ FeedDone
    \/ CollectResults
    \/ Return
    \/ CreateComputationFails
    \/ GetComputationFails
    \/ MakeComputationRaises
    \/ FeedInputFails
    \/ CollectResultsFails
    \/ CallRaises

SpecFaults == InitFaults /\ [][NextFaults]_vars

-----------------------------------------------------------------------------
(* close() when a call to a worker or to the launcher raises *)

\* line 222: close_transformer of one worker raises; the workers before it
\* have been told to close their transformers
CloseTransformerFails ==
    /\ pc = "close_transformer"
    /\ k < Len(child_transformers)
    /\ LET t == child_transformers[k + 1]
       IN  log' = log \o << Call("close_transformer", t, <<>>),
                            Raise("close_transformer", t, {}) >>
    /\ pc' = "close_raised"
    /\ UNCHANGED <<graphVars, hetrVars, api, pid, serdeVars, buildVars, k, comps,
                   callVars>>

\* line 224: close of one worker's client raises
CloseClientFails ==
    /\ pc = "close_client"
    /\ k < Len(child_transformers)
    /\ LET t == child_transformers[k + 1]
       IN  log' = log \o << Call("close", t, <<>>), Raise("close", t, {}) >>
    /\ pc' = "close_raised"
    /\ UNCHANGED <<graphVars, hetrVars, api, pid, serdeVars, buildVars, k, comps,
                   callVars>>

\* line 225: the launcher's close raises
CloseLauncherFails ==
    /\ pc = "close_client"
    /\ k = Len(child_transformers)
    /\ log' = log \o << Call("close", Launcher, <<>>), Raise("close", Launcher, {}) >>
    /\ pc' = "close_raised"
    /\ UNCHANGED <<graphVars, hetrVars, api, pid, serdeVars, buildVars, k, comps,
                   callVars>>

\* lines 215-227: the exception leaves close(); line 227 is not reached
CloseRaises ==
    /\ pc = "close_raised"
    /\ k' = 0
    /\ pc' = "idle"
    /\ UNCHANGED <<graphVars, hetrVars, log, api, pid, serdeVars, buildVars, comps,
                   callVars>>

NextCloseFaults ==
    \/ \E c \in Computations : MakeComputation(c)
    \/ WrapReturns
    \/ DoPass
    \/ TensorValueHack
    \/ Launch
    \/ SetupChildTransformers
    \/ WholeGraph
    \/ Partition
    \/ CreateComputation
    \/ CreateDone
    \/ GetComputation
    \/ BuildDone
    \/ \E p \in Pids : Close(p)
    \/ CloseTransformer
    \/ CloseTransformerDone
    \/ CloseClient
    \/ CloseLauncher
    \/ MarkClosed
    \/ CloseTransformerFails
    \/ CloseClientFails
    \/ CloseLauncherFails
    \/ CloseRaises

SpecCloseFaults == InitFaults /\ [][NextCloseFaults]_vars

-----------------------------------------------------------------------------
(* close() called by two threads of the owning process at once *)

\* a call issued by thread t, under the number of the thread's own operation
ThreadCall(t, name, to) == [Call(name, to, <<>>) EXCEPT !.op = closers[t].op]

\* lines 216-220 in thread t: the two guards; os.getpid() is my_pid
ThreadClose(t) ==
    /\ pc = "idle"
    /\ closers[t].pc = "idle"
    /\ api' = Append(api, ApiCall("close", my_pid))
    /\ closers' = [closers EXCEPT ![t] =
                      [pc |-> IF is_closed THEN "done" ELSE "close_transformer",
                       k |-> 0, op |-> nops + 1]]
    /\ UNCHANGED <<graphVars, default_device, my_pid, is_closed, child_transformers,
                   clients, mpilauncher, log, pc, pid, serdeVars, buildVars, k, comps,
                   callVars>>

\* lines 221-222 in thread t: one iteration of the first loop
ThreadCloseTransformer(t) ==
    /\ closers[t].pc = "close_transformer"
    /\ closers[t].k < Len(child_transformers)
    /\ LET n == child_transformers[closers[t].k + 1]
       IN  /\ clients' = [clients EXCEPT ![n].closed_transformer = @ + 1]
           /\ log' = Append(log, ThreadCall(t, "close_transformer", n))
    /\ closers' = [closers EXCEPT ![t].k = @ + 1]
    /\ UNCHANGED <<graphVars, default_device, my_pid, is_closed, child_transformers,
                   mpilauncher, api, pc, pid, serdeVars, buildVars, k, comps, callVars>>

\* the first loop of thread t is over
ThreadCloseTransformerDone(t) ==
    /\ closers[t].pc = "close_transformer"
    /\ closers[t].k = Len(child_transformers)
    /\ closers' = [closers EXCEPT ![t].pc = "close_client", ![t].k = 0]
    /\ UNCHANGED <<graphVars, default_device, my_pid, is_closed, child_transformers,
                   clients, mpilauncher, log, api, pc, pid, serdeVars, buildVars, k,
                   comps, callVars>>

\* lines 223-224 in thread t: one iteration of the second loop
ThreadCloseClient(t) ==
    /\ closers[t].pc = "close_client"
    /\ closers[t].k < Len(child_transformers)
    /\ LET n == child_transformers[closers[t].k + 1]
       IN  /\ clients' = [clients EXCEPT ![n].closed = @ + 1]
           /\ log' = Append(log, ThreadCall(t, "close", n))
    /\ closers' = [closers EXCEPT ![t].k = @ + 1]
    /\ UNCHANGED <<graphVars, default_device, my_pid, is_closed, child_transformers,
                   mpilauncher, api, pc, pid, serdeVars, buildVars, k, comps, callVars>>

\* line 225 in thread t
ThreadCloseLauncher(t) ==
    /\ closers[t].pc = "close_client"
    /\ closers[t].k = Len(child_transformers)
    /\ mpilauncher' = [mpilauncher EXCEPT !.closed = @ + 1]
    /\ log' = Append(log, ThreadCall(t, "close", Launcher))
    /\ closers' = [closers EXCEPT ![t].pc = "close_mark", ![t].k = 0]
    /\ UNCHANGED <<graphVars, default_device, my_pid, is_closed, child_transformers,
                   clients, api, pc, pid, serdeVars, buildVars, k, comps, callVars>>

\* lines 226-227 in thread t
ThreadMarkClosed(t) ==
    /\ closers[t].pc = "close_mark"
    /\ is_closed' = TRUE
    /\ closers' = [closers EXCEPT ![t].pc = "done"]
    /\ UNCHANGED <<graphVars, default_device, my_pid, child_transformers, clients,
                   mpilauncher, log, api, pc, pid, serdeVars, buildVars, k, comps,
                   callVars>>

\* the computations are built first; then each thread calls close() once
NextThreads ==
    \/ \E c \in Computations : closers = NoClosers /\ MakeComputation(c)
    \/ WrapReturns
    \/ DoPass
    \/ TensorValueHack
    \/ Launch
    \/ SetupChildTransformers
    \/ WholeGraph
    \/ Partition
    \/ CreateComputation
    \/ CreateDone
    \/ GetComputation
    \/ BuildDone
    \/ \E t \in Threads : ThreadClose(t)
    \/ \E t \in Threads : ThreadCloseTransformer(t)
    \/ \E t \in Threads : ThreadCloseTransformerDone(t)
    \/ \E t \in Threads : ThreadCloseClient(t)
    \/ \E t \in Threads : ThreadCloseLauncher(t)
    \/ \E t \in Threads : ThreadMarkClosed(t)

SpecThreads == InitFaults /\ [][NextThreads]_vars


-----------------------------------------------------------------------------
(* Properties of the serialization loop *)

ChunkOps(c) == c[1]

ChunkNames(c) == [x \in 1..Len(c[1]) |-> c[1][x].name]

CeilDiv(n, d) == (n + d - 1) \div d

\* C1: every transport chunk holds at most 10 operation descriptors
C1_ChunkAtMostTen ==
    Serialized =>
        \A c \in 1..Len(pb_whole_graph) :
            Len(ChunkOps(pb_whole_graph[c])) <= OPS_PER_MSG

\* C2: a whole graph of N nodes is serialized into exactly ceil(N/10) chunks
C2_ChunkCount ==
    Serialized => Len(pb_whole_graph) = CeilDiv(Len(whole_graph), OPS_PER_MSG)

\* C3: the chunks' operation lists, concatenated in chunk order, are the
\* whole-graph node sequence (every node once, same order), and no chunk is empty
C3_ConcatReproduces ==
    Serialized =>
        /\ Flatten([c \in 1..Len(pb_whole_graph) |-> ChunkNames(pb_whole_graph[c])])
              = whole_graph
        /\ \A c \in 1..Len(pb_whole_graph) : Len(ChunkOps(pb_whole_graph[c])) > 0

C3_Witness ==
    /\ Serialized
    /\ Len(whole_graph) > 2 * OPS_PER_MSG
    /\ Len(pb_whole_graph) >= 2

-----------------------------------------------------------------------------
(* Properties of a build *)

\* the names, in log order, of the workers that received call c in operation b
Callees(b, c) ==
    LET hits == SelectSeq(log, LAMBDA e : e.op = b /\ e.call = c)
    IN  [x \in 1..Len(hits) |-> hits[x].to]

\* every call c of operation b is logged before every call d of operation b
AllBefore(b, c, d) ==
    LET cs == {x \in DOMAIN log : log[x].op = b /\ log[x].call = c}
        ds == {x \in DOMAIN log : log[x].op = b /\ log[x].call = d}
    IN  \A x \in cs, y \in ds : x < y

\* the keys of the per-worker return mappings of a built computation
ReturnKeys(comp) ==
    UNION {DOMAIN comp.child_computations[x].returns :
              x \in DOMAIN comp.child_computations}

\* C4: after a build the keys of the per-worker return mappings, taken
\* together, are exactly the declared returns: no declared return is missing
\* and no send node, gather wrapper or other node is a key
C4_ReturnKeysAreDeclared ==
    pc = "idle" =>
        \A c \in DOMAIN comps :
            ReturnKeys(comps[c]) = Range(comps[c].computation_op.returns)

C4_Witness ==
    \E c \in DOMAIN comps :
        /\ Len(comps[c].child_computations) >= 2
        /\ \E r \in Range(comps[c].computation_op.returns) : ops[r].hetr_replaced_by # 0
        /\ \E r \in Range(comps[c].computation_op.returns) : ops[r].hetr_replaced_by = 0
        /\ \E x \in DOMAIN comps[c].child_computations, s \in Range(send_nodes) :
              Contains(comps[c].child_computations[x].transform_ops, s)

\* the value v is the value computed for declared return r: the value of r
\* itself or of the argument of a gather wrapper that replaces r
ValueOf(v, r) ==
    \/ v.of = r
    \/ \E w \in DOMAIN ops :
          ops[w].kind = "result" /\ ops[w].replaces_op = r /\ v.of = ops[w].args[1]

Returned == pc = "idle" /\ nops > 0 /\ api[nops].kind = "call"

NumProcess(b) ==
    LET x == CHOOSE y \in DOMAIN log : log[y].op = b /\ log[y].call = "launch"
    IN  log[x].arg[1]

\* C6: in a build create_computation is issued to every registered worker
\* before get_computation is called on any worker, and get_computation is
\* called on the workers in the order in which their creation was issued
C6_CreateAllBeforeGet ==
    pc \in {"get", "idle"} => \A b \in 1..nops :
        /\ AllBefore(b, "create_computation", "get_computation")
        /\ IsPrefix(Callees(b, "get_computation"), Callees(b, "create_computation"))
        /\ Callees(b, "get_computation") # <<>> =>
              Callees(b, "create_computation")
                  = SubSeq(child_transformers, 1, NumProcess(b))

C6_Witness ==
    /\ pc = "idle"
    /\ \E b \in 1..nops :
          /\ Len(Callees(b, "get_computation")) >= 2
          /\ Callees(b, "get_computation") = Callees(b, "create_computation")

\* what create_computation of build b handed to worker n
Created(b, n) ==
    LET x == CHOOSE y \in DOMAIN log :
                 log[y].op = b /\ log[y].call = "create_computation" /\ log[y].to = n
    IN  log[x].arg

StrictlyIncreasing(s) == \A x, y \in DOMAIN s : x < y => s[x] < s[y]

\* C7: a worker's param_idx is strictly increasing, is as long as the parameter
\* list handed to its create_computation, its k-th entry is the global position
\* of the k-th of these parameters, and an invocation feeds the worker exactly
\* the argument values at these positions, in this order
C7_ParamIdx ==
    pc \in {"idle", "collect"} =>
    /\ \A c \in DOMAIN comps : \A x \in DOMAIN comps[c].child_computations :
          LET child == comps[c].child_computations[x]
              params == comps[c].computation_op.parameters
              passed == Created(comps[c].built_by, child.name).placeholders
          IN  /\ StrictlyIncreasing(child.param_idx)
              /\ Len(child.param_idx) = Len(passed)
              /\ \A y \in DOMAIN passed : params[child.param_idx[y] + 1] = passed[y]
    /\ pc = "collect" =>
          /\ Callees(nops, "feed_input")
                = [y \in DOMAIN comps[cur].child_computations |->
                      comps[cur].child_computations[y].name]
          /\ \A x \in DOMAIN log :
              (log[x].op = nops /\ log[x].call = "feed_input") =>
                  \E y \in DOMAIN comps[cur].child_computations :
                      LET child == comps[cur].child_computations[y]
                          params == comps[cur].computation_op.parameters
                          passed == Created(comps[cur].built_by, child.name).placeholders
                      IN  /\ child.name = log[x].to
                          /\ Len(log[x].arg) = Len(passed)
                          /\ \A z \in DOMAIN passed :
                                \E g \in DOMAIN params :
                                    params[g] = passed[z] /\ log[x].arg[z] = args[g]

C7_Witness ==
    /\ pc = "collect"
    /\ \E y \in DOMAIN comps[cur].child_computations :
          comps[cur].child_computations[y].param_idx = <<1>>
    /\ \E y \in DOMAIN comps[cur].child_computations :
          comps[cur].child_computations[y].param_idx = <<0, 1>>

\* C8: in an invocation feed_input is called on every worker of the
\* computation before get_results is called on any worker
C8_FeedAllBeforeCollect ==
    pc \in {"collect", "idle"} => \A b \in 1..nops :
        /\ AllBefore(b, "feed_input", "get_results")
        /\ IsPrefix(Callees(b, "get_results"), Callees(b, "feed_input"))
        /\ (b = nops /\ Callees(b, "get_results") # <<>>) =>
              Callees(b, "feed_input")
                  = [x \in DOMAIN comps[cur].child_computations |->
                        comps[cur].child_computations[x].name]

C8_Witness ==
    /\ Returned
    /\ Len(Callees(nops, "get_results")) >= 2

-----------------------------------------------------------------------------
(* Properties of close *)

CloseCalls == {"close_transformer", "close"}

\* how often call c was issued to n
TimesCalled(c, n) == Cardinality({x \in DOMAIN log : log[x].call = c /\ log[x].to = n})

\* the close() calls made so far in the owning process
OwnerCloses == {b \in 1..nops : api[b].kind = "close" /\ api[b].pid = my_pid}

\* the workers registered when operation b started
RegisteredBefore(b) ==
    {log[x].to : x \in {y \in DOMAIN log :
                          log[y].op < b /\ log[y].call = "set_server_address"}}

\* C9: in the owning process, after one close() or several the transformer is
\* closed, every worker then registered was closed once and the launcher was
\* released once: the second and later calls issue no call
C9_CloseIdempotent ==
    (pc = "idle" /\ OwnerCloses # {}) =>
        LET first == CHOOSE b \in OwnerCloses : \A o \in OwnerCloses : b <= o
        IN  /\ is_closed
            /\ TimesCalled("close", Launcher) = 1
            /\ \A n \in RegisteredBefore(first) :
                  TimesCalled("close_transformer", n) = 1 /\ TimesCalled("close", n) = 1
            /\ \A x \in DOMAIN log : log[x].call \in CloseCalls => log[x].op = first

C9_Witness ==
    /\ pc = "idle"
    /\ Cardinality(OwnerCloses) >= 2
    /\ is_closed
    /\ \E n \in Range(child_transformers) : TimesCalled("close", n) = 1

\* the step is a close() call made in a process that does not own the transformer
ForeignClose ==
    /\ pc = "idle"
    /\ api' # api
    /\ api'[Len(api')].kind = "close"
    /\ api'[Len(api')].pid # my_pid

\* C10: close() in a process whose pid is not the recorded one returns at once
\* and changes nothing: no worker closed, launcher not released, is_closed and
\* the registry as before
C10_ForeignCloseNoOp ==
    [][ForeignClose =>
          /\ pc' = "idle"
          /\ UNCHANGED <<is_closed, child_transformers, clients, mpilauncher, log>>]_vars

C10_Witness ==
    /\ pc = "idle"
    /\ nops > 0
    /\ api[nops].kind = "close"
    /\ api[nops].pid # my_pid
    /\ ~is_closed
    /\ child_transformers # <<>>

-----------------------------------------------------------------------------
(* Properties of the order of the calls of close *)

\* the positions in the log of the calls named c issued by operation b
CallsAt(b, c) == {x \in DOMAIN log : log[x].op = b /\ log[x].call = c}

\* the close() operations that got past the two guards
EffectiveCloses ==
    {b \in 1..nops : \E x \in CallsAt(b, "close") : log[x].to = Launcher}

\* C11: a close() that gets past the guards closes every registered worker
\* exactly once (one close_transformer and one close each) and releases the
\* launcher only after every worker has been closed
C11_WorkersClosedBeforeLauncher ==
    (pc \in {"close_mark", "idle"}) =>
        \A b \in EffectiveCloses :
            LET released == {x \in CallsAt(b, "close") : log[x].to = Launcher}
            IN  /\ Cardinality(released) = 1
                /\ \A n \in RegisteredBefore(b) :
                      /\ Cardinality({x \in CallsAt(b, "close_transformer") :
                                        log[x].to = n}) = 1
                      /\ Cardinality({x \in CallsAt(b, "close") : log[x].to = n}) = 1
                      /\ \A x \in CallsAt(b, "close_transformer") \cup CallsAt(b, "close") :
                            log[x].to = n => \A r \in released : x < r

C11_Witness ==
    /\ pc = "close_mark"
    /\ Cardinality(RegisteredBefore(nops)) >= 2
    /\ Len(Callees(nops, "close")) = Cardinality(RegisteredBefore(nops)) + 1

-----------------------------------------------------------------------------
(* Properties of ownership *)

\* the partition of the build in progress has been computed
Partitioned == pc \in {"create", "get"}

\* the workers whose share of the partition holds node o
Owners(o) ==
    {n \in DOMAIN t_placeholders :
        Contains(t_placeholders[n], o) \/ Contains(t_returns[n], o)}

\* the parameters and returns the partition was computed over
Candidates == Range(computation_op.parameters) \cup Range(AllReturns)

\* C12: a parameter or return whose 'transformer' metadata names a single
\* worker is accepted by is_my_op for exactly one registered worker, whatever
\* the registry; only a node whose metadata lists several is accepted by more
C12_SingleOwner ==
    Partitioned =>
        \A o \in Candidates :
            ops[o].transformer.tag = "str" => Cardinality(Owners(o)) = 1

-----------------------------------------------------------------------------
(* Properties of split returns *)

\* the gather wrappers of declared return r
WrappersOf(r) == {w \in DOMAIN ops : ops[w].kind = "result" /\ ops[w].replaces_op = r}

\* the returns have just been wrapped: no pass of this build has run and no
\* ownership has been computed
JustWrapped == pc = "passes" /\ k = 0 /\ t_returns = <<>>

\* the children of built computation c whose return mapping has key r
ChildrenWithKey(c, r) ==
    {x \in DOMAIN comps[c].child_computations :
        r \in DOMAIN comps[c].child_computations[x].returns}

\* C13: a declared return whose device_id is a list is replaced, before the
\* passes and the ownership computation, by a gather wrapper on device 0 that
\* refers back to it; the worker of device 0 alone owns the wrapper, and after
\* the build exactly one value is exposed for the return, under the original
\* return as key, never under the wrapper
C13_SplitReturnWrapped ==
    /\ JustWrapped =>
          \A r \in Range(returns) :
              ops[r].device_id.tag = "list" =>
                  /\ ~Contains(new_returns, r)
                  /\ ops[r].is_split_op
                  /\ Contains(new_returns, ops[r].hetr_replaced_by)
                  /\ LET w == ops[ops[r].hetr_replaced_by]
                     IN  /\ w.kind = "result"
                         /\ w.args = <<r>>
                         /\ w.replaces_op = r
                         /\ w.device_id = IntMeta(0)
    /\ Partitioned =>
          \A r \in Range(returns) :
              ops[r].device_id.tag = "list" =>
                  Owners(ops[r].hetr_replaced_by) = {TName(default_device, 0)}
    /\ pc = "idle" =>
          \A c \in DOMAIN comps :
              \A r \in Range(comps[c].computation_op.returns) :
                  ops[r].device_id.tag = "list" =>
                      /\ Cardinality(ChildrenWithKey(c, r)) = 1
                      /\ \A w \in WrappersOf(r) : ChildrenWithKey(c, w) = {}
    /\ Returned =>
          \A r \in Range(comps[cur].computation_op.returns) :
              ops[r].device_id.tag = "list" =>
                  /\ r \in DOMAIN return_vals
                  /\ ValueOf(return_vals[r], r)
                  /\ return_vals[r].from = TName(default_device, 0)
                  /\ \A w \in WrappersOf(r) : w \notin DOMAIN return_vals

C13_Witness ==
    /\ Returned
    /\ Len(comps[cur].child_computations) >= 2
    /\ \E r \in Range(comps[cur].computation_op.returns) :
          ops[r].device_id.tag = "list" /\ r \in DOMAIN return_vals

-----------------------------------------------------------------------------
(* Properties of parameters read on several devices *)

\* the nodes that read parameter p, directly or through the receiving end of
\* a send/receive pair that carries p
Readers(p) ==
    {c \in DOMAIN ops :
        /\ ops[c].kind = "op"
        /\ \E a \in Range(ops[c].args) :
              \/ a = p
              \/ /\ ops[a].kind = "recv"
                 /\ ops[a].send_node # 0
                 /\ ops[ops[a].send_node].args = <<p>>}

\* the workers named by the 'transformer' metadata of node o
NamedBy(o) == Range(ops[o].transformer.v)

\* the workers of built computation c
WorkersOf(c) ==
    {comps[c].child_computations[x].name : x \in DOMAIN comps[c].child_computations}

\* the workers of c on which a node of its graph reads parameter p
ReaderWorkers(c, p) == WorkersOf(c) \cap UNION {NamedBy(r) : r \in Readers(p)}

\* the child of built computation c that runs on worker n
ChildOf(c, n) ==
    {x \in DOMAIN comps[c].child_computations :
        comps[c].child_computations[x].name = n}

\* global position g is an entry of param_idx of the child on worker n
InParamIdx(c, n, g) ==
    \E x \in ChildOf(c, n) : Contains(comps[c].child_computations[x].param_idx, g)

-----------------------------------------------------------------------------
(* Properties of what create_computation is given *)

\* every worker of the build in progress has been sent its create_computation
AllCreated == pc = "get" /\ k = 0

\* C15: the chunk sequence is built once per build (every node of the whole
\* graph serialized once), every worker's create_computation is given that
\* same sequence unchanged, and each worker is given only the parameters and
\* the returns that are its own, those whose metadata names that worker
C15_SameChunksOwnShare ==
    AllCreated =>
        /\ Flatten([c \in 1..Len(pb_whole_graph) |-> ChunkNames(pb_whole_graph[c])])
              = whole_graph
        /\ Callees(nops, "create_computation") = child_transformers
        /\ \A x \in CallsAt(nops, "create_computation") :
              LET n == log[x].to
              IN  /\ log[x].arg.graph = pb_whole_graph
                  /\ log[x].arg.placeholders = t_placeholders[n]
                  /\ log[x].arg.returns = Unwrap(ops, t_returns[n])
                  /\ \A p \in Range(t_placeholders[n]) :
                        p \in Range(computation_op.parameters) /\ n \in NamedBy(p)
                  /\ \A r \in Range(t_returns[n]) :
                        r \in Range(AllReturns) /\ n \in NamedBy(r)

-----------------------------------------------------------------------------
(* Properties of the order of the stages of a build *)

\* the operation in progress, or the last one, is a build
InBuild == nops > 0 /\ api[nops].kind = "make_computation"

\* the worker processes of this build have been started
Launched == Len(Callees(nops, "launch")) > 0

\* the per-worker subsets of this build have been computed
PartitionComputed == DOMAIN t_placeholders # {} /\ DOMAIN t_returns # {}

\* C16 as stated: the per-worker partition of a build is computed before any
\* worker process is launched
C16_PartitionBeforeLaunch ==
    (InBuild /\ Launched) => PartitionComputed

\* C16 amended: a build applies the passes, then launches the worker processes
\* and gives each worker its address, then computes the graph closure and the
\* per-worker partition, then issues the remote creations and then
\* materializes every worker; the launch precedes the partition
C16_StageOrder ==
    InBuild =>
        /\ pc = "launch" =>
              /\ k = Len(GraphPasses)
              /\ \A x \in Candidates : HasTransformer(ops[x])
              /\ ~Launched
        /\ pc \in {"setup", "closure", "partition"} =>
              /\ Len(Callees(nops, "launch")) = 1
              /\ ~PartitionComputed
              /\ Callees(nops, "create_computation") = <<>>
        /\ pc \in {"closure", "partition"} =>
              Callees(nops, "set_server_address") = child_transformers
        /\ pc \in {"create", "get"} =>
              /\ PartitionComputed
              /\ AllBefore(nops, "launch", "set_server_address")
              /\ AllBefore(nops, "set_server_address", "create_computation")
              /\ AllBefore(nops, "create_computation", "get_computation")
        /\ pc = "create" => Callees(nops, "get_computation") = <<>>
        /\ (pc = "idle" /\ comps # <<>> /\ comps[Len(comps)].built_by = nops) =>
              /\ Len(Callees(nops, "launch")) = 1
              /\ Callees(nops, "create_computation") = child_transformers
              /\ Callees(nops, "get_computation") = child_transformers

C16_Witness ==
    /\ InBuild
    /\ pc = "partition"
    /\ Launched
    /\ ~PartitionComputed
    /\ Len(child_transformers) >= 2

-----------------------------------------------------------------------------
(* Properties of the closed transformer *)

\* C17: Closed is terminal: once close() has completed in the owning process
\* no later make_computation, invocation or close issues any call (launch,
\* create, feed, collect, close) to a worker or to the launcher
C17_ClosedTerminal ==
    is_closed =>
        \A b \in EffectiveCloses : \A x \in DOMAIN log : log[x].op <= b

-----------------------------------------------------------------------------
(* Properties of failing worker calls *)

\* the exceptions raised by call c, as positions in the log
Raises(c) == {x \in DOMAIN log : log[x].call = "raise" /\ log[x].arg.during = c}

BuildRaises == Raises("create_computation") \cup Raises("get_computation")

\* C18: when create_computation or get_computation of a worker raises, the
\* build fails as a whole: the raising call is the last call of the build (no
\* retry, no further worker), no computation handle comes out of that build,
\* and every handle there is has every registered worker materialized
C18_BuildFailsAsAWhole ==
    pc = "idle" =>
        /\ \A x \in BuildRaises :
              /\ \A y \in DOMAIN log : log[y].op = log[x].op => y <= x
              /\ \A c \in DOMAIN comps : comps[c].built_by # log[x].op
        /\ \A c \in DOMAIN comps :
              LET b == comps[c].built_by
              IN  /\ Callees(b, "raise") = <<>>
                  /\ [x \in DOMAIN comps[c].child_computations |->
                        comps[c].child_computations[x].name]
                        = Callees(b, "create_computation")
                  /\ Len(Callees(b, "create_computation")) = NumProcess(b)

C18_Witness ==
    /\ pc = "idle"
    /\ \E x \in Raises("get_computation") :
          /\ Len(Callees(log[x].op, "get_computation")) >= 2
          /\ log[x].op < nops
          /\ api[nops].kind = "call"

\* C19: after an invocation in which feed_input or get_results raised while
\* another worker was left fed and not collected, the computation is
\* unusable: no later invocation of it feeds a worker again
C19_UnusableAfterFailure ==
    (pc = "feed" /\ k > 0) =>
        \A x \in Raises("feed_input") \cup Raises("get_results") :
            (log[x].arg.comp = cur /\ log[x].arg.pending # {}) => log[x].op = nops

-----------------------------------------------------------------------------
(* Properties of unknown device names *)

\* the worker names given to nodes whose device word is neither cpu nor gpu
UnknownNames ==
    {n \in UNION {NamedBy(o) : o \in DOMAIN ops} : n.dev \notin {"cpu", "gpu"}}

\* register_transformer has raised in the build in progress
RegistrationRaised == pc = "raised" /\ UnknownNames # {}

\* C20 as stated: the error of an unknown device name is raised before any
\* worker process is launched and the registry has no entry for the name
C20_RaisedBeforeAnyLaunch ==
    RegistrationRaised =>
        /\ mpilauncher.launched = 0
        /\ UnknownNames \cap Range(child_transformers) = {}

\* C20 amended: the error of an unknown device name is raised in the passes of
\* the build that reaches the node, before that build launches or calls
\* anything; the build returns no handle and the registry never has an entry
\* for the name; earlier builds that did not reach the node have launched
C20_RaisedBeforeLaunchOfBuild ==
    /\ UnknownNames \cap Range(child_transformers) = {}
    /\ UnknownNames \cap DOMAIN clients = {}
    /\ RegistrationRaised =>
          /\ \A x \in DOMAIN log : log[x].op < nops
          /\ \A c \in DOMAIN comps : comps[c].built_by < nops
    /\ \A c \in DOMAIN comps :
          \A x \in DOMAIN comps[c].child_computations :
              comps[c].child_computations[x].name \notin UnknownNames

C20_Witness ==
    /\ RegistrationRaised
    /\ mpilauncher.launched > 0
    /\ comps # <<>>

-----------------------------------------------------------------------------
(* Properties of nodes without a resolvable device *)

\* the parameters and returns of the build that have no 'transformer' metadata
Unresolved == {x \in Candidates : ~HasTransformer(ops[x])}

\* the partition of the build in progress has raised KeyError
PartitionRaised == pc = "raised" /\ UnknownNames = {} /\ Unresolved # {}

\* C21 as stated: a parameter or return without 'transformer' metadata fails
\* the build at the partition before any worker is launched and before any
\* create_computation is issued
C21_FailsBeforeLaunch ==
    PartitionRaised =>
        /\ Callees(nops, "launch") = <<>>
        /\ Callees(nops, "create_computation") = <<>>

\* C21 amended: with a worker registered, a parameter or return without
\* 'transformer' metadata fails the build at the partition, after the workers
\* of the build were launched and given their addresses and before any
\* build_transformer or create_computation; no handle is returned, and no
\* creation is ever issued over a partition that left such a node out
C21_FailsAtPartitionAfterLaunch ==
    /\ PartitionRaised =>
          /\ Len(Callees(nops, "launch")) = 1
          /\ Callees(nops, "set_server_address") = child_transformers
          /\ Callees(nops, "build_transformer") = <<>>
          /\ Callees(nops, "create_computation") = <<>>
          /\ \A c \in DOMAIN comps : comps[c].built_by < nops
    /\ pc \in {"create", "get"} => Unresolved = {}

C21_Witness ==
    /\ PartitionRaised
    /\ Len(child_transformers) >= 2
    /\ \E r \in Range(returns) : r \in Unresolved

-----------------------------------------------------------------------------
(* Properties of the registry *)

\* C22: registering a name that is already in the registry keeps its client
\* and makes no new one: after any builds the registry holds one client per
\* registered name, and that client has taken every call ever issued to the
\* name, so later builds reuse the clients of earlier ones
C22_OneClientPerName ==
    pc = "idle" =>
        /\ Cardinality(Range(child_transformers)) = Len(child_transformers)
        /\ DOMAIN clients = Range(child_transformers)
        /\ \A n \in DOMAIN clients :
              /\ clients[n].built = TimesCalled("build_transformer", n)
              /\ clients[n].created = TimesCalled("create_computation", n)
              /\ clients[n].closed = TimesCalled("close", n)

C22_Witness ==
    /\ pc = "idle"
    /\ Len(comps) = 2
    /\ Len(child_transformers) >= 2
    /\ \A n \in DOMAIN clients : clients[n].created = 2

-----------------------------------------------------------------------------
(* Properties of the communication pass *)

\* the argument edges <<consumer, position>> of the nodes of S whose two ends
\* carry different 'transformer' metadata
CrossEdges(S) ==
    {e \in UNION {{<<c, a>> : a \in DOMAIN ops[c].args} : c \in S} :
        ops[ops[e[1]].args[e[2]]].transformer # ops[e[1]].transformer}

\* every receive node has its own send node, on the device of the sent node
PairedUp ==
    \A r \in DOMAIN ops :
        ops[r].kind = "recv" =>
            LET sn == ops[r].send_node
            IN  /\ sn \in Range(send_nodes)
                /\ ops[sn].kind = "send"
                /\ Len(ops[sn].args) = 1
                /\ ops[sn].transformer = ops[ops[sn].args[1]].transformer
                /\ ops[sn].transformer # ops[r].transformer

\* the communication pass of the build in progress has just run
JustBridged == pc = "passes" /\ k = 2

\* C23: after the communication pass no argument edge of the graph it ran on
\* connects nodes of different devices, every bridged edge goes through one
\* send node on the producer's device and one receive node on the consumer's
\* device, and the subgraphs sent to the workers have no cross-device edge
C23_NoCrossDeviceEdge ==
    /\ JustBridged =>
          /\ CrossEdges(ReachFrom(ops, Range(pass_ops), {})) = {}
          /\ PairedUp
    /\ AllCreated => CrossEdges(Range(whole_graph)) = {}

\* the send and receive nodes of graph g
CommNodes(g) == {x \in DOMAIN g : g[x].kind \in {"send", "recv"}}

\* the step runs the communication pass of a build of a computation that was
\* built before on this transformer, over its already bridged graph
RebridgeStep ==
    /\ pc = "passes"
    /\ k + 1 = 2
    /\ k' = 2
    /\ \E c \in DOMAIN comps : comps[c].computation_op = computation_op

\* C24: the communication pass run again on an already bridged graph, in the
\* second build of a computation on the same transformer, inserts no
\* send/receive pair: the send set and the send and receive nodes of the
\* graph are as they were
C24_RebridgeInsertsNothing ==
    [][RebridgeStep =>
          /\ send_nodes' = send_nodes
          /\ CommNodes(ops') = CommNodes(ops)]_vars

-----------------------------------------------------------------------------
(* Properties of the launch *)

\* the launch calls of operation b, as log entries
Launches(b) == SelectSeq(log, LAMBDA e : e.op = b /\ e.call = "launch")

\* the kinds of worker in the registry
FleetKinds == {child_transformers[x].dev : x \in DOMAIN child_transformers}

\* the build in progress is past its launch
PastLaunch == InBuild /\ pc \in {"setup", "closure", "partition", "create", "get"}

\* launched once, ahead of the addresses and the creations, for every
\* registered worker
LaunchedOnceFirst ==
    /\ Len(Launches(nops)) = 1
    /\ AllBefore(nops, "launch", "set_server_address")
    /\ AllBefore(nops, "launch", "create_computation")
    /\ Launches(nops)[1].arg[1] = Len(child_transformers)

\* C25: each build launches the workers once, before any server address is
\* resolved and any create_computation is issued, with worker count the number
\* of registered workers and processes-per-node 1 for a fleet of cpu workers
\* only and the worker count for a fleet of accelerator workers
C25_LaunchOncePpnByFleet ==
    PastLaunch =>
        /\ LaunchedOnceFirst
        /\ FleetKinds = {"cpu"} => Launches(nops)[1].arg[2] = 1
        /\ FleetKinds = {"gpu"} => Launches(nops)[1].arg[2] = Len(child_transformers)

-----------------------------------------------------------------------------
(* Properties of the return mapping *)

\* the ops-to-return lists passed to create_computation of worker n by
\* operation b
ReturnListsOf(b, n) ==
    LET hits == SelectSeq(log, LAMBDA e : e.op = b /\ e.call = "create_computation"
                                                  /\ e.to = n)
    IN  [x \in 1..Len(hits) |-> hits[x].arg.returns]

\* the node a slot of declared return r holds: r itself, or the node wrapped
\* by a gather wrapper of r
SlotNodes(r) == {r} \cup {ops[w].args[1] : w \in WrappersOf(r)}

\* the send nodes owned by worker n
SendsOf(n) == {s \in Range(send_nodes) : IsMyOp(ops[s], n)}

\* C26: for every worker each slot index of its return mapping is the
\* position, in the ops-to-return list passed to the worker's
\* create_computation, of the declared return or of the node its gather
\* wrapper wraps; the slots of one worker are distinct; the worker's send
\* nodes are in the list and are not keys of the mapping
C26_SlotsArePositions ==
    pc = "get" =>
        \A x \in DOMAIN child_computations :
            LET ch == child_computations[x]
                lists == ReturnListsOf(nops, ch.name)
            IN  /\ Len(lists) = 1
                /\ \A r \in DOMAIN ch.returns :
                       /\ ch.returns[r] + 1 \in DOMAIN lists[1]
                       /\ lists[1][ch.returns[r] + 1] \in SlotNodes(r)
                /\ \A r, q \in DOMAIN ch.returns :
                       r # q => ch.returns[r] # ch.returns[q]
                /\ \A s \in SendsOf(ch.name) :
                       /\ Contains(lists[1], s)
                       /\ s \notin DOMAIN ch.returns

\* a worker with two keys, one of them a split return, and a send node in
\* its list ahead of them
C26_Witness ==
    /\ pc = "get"
    /\ \E x \in DOMAIN child_computations :
          LET ch == child_computations[x]
          IN  /\ \E r, q \in DOMAIN ch.returns :
                     /\ r # q
                     /\ WrappersOf(r) # {}
                     /\ ch.returns[r] > 0
              /\ SendsOf(ch.name) # {}

-----------------------------------------------------------------------------
(* Properties of the send set *)

\* the nodes of the serialized whole graph
SerializedNames ==
    UNION {Range(ChunkNames(pb_whole_graph[c])) : c \in DOMAIN pb_whole_graph}

\* every send node of the transformer is in the serialized whole graph of the
\* build in progress and in the return list of every worker that owns it
SendsCarried ==
    Partitioned =>
        \A s \in Range(send_nodes) :
            /\ s \in SerializedNames
            /\ NamedBy(s) # {}
            /\ \A n \in NamedBy(s) : Contains(t_returns[n], s)

\* the nodes the computation being built depends on
Needed == Range(AllOpReferences(ops, new_returns \o computation_op.parameters))

\* C27: the send set belongs to the transformer and only grows: a send node
\* recorded in one build stays in the set, and is in the per-worker return
\* lists and in the serialized whole graph of every computation built later
\* on the transformer, also of one that does not depend on it
C27_SendSetOnlyGrows ==
    [][/\ Range(send_nodes) \subseteq Range(send_nodes')
       /\ SendsCarried']_vars

\* a second computation is partitioned with a send node of the first that
\* it does not depend on
C27_Witness ==
    /\ Partitioned
    /\ comps # <<>>
    /\ \E s \in Range(send_nodes) :
          /\ s \notin Needed
          /\ s \in SerializedNames
          /\ \E n \in Range(child_transformers) : Contains(t_returns[n], s)

-----------------------------------------------------------------------------
(* Properties of close() under concurrency and failure *)

\* every thread has returned from its close()
AllReturned == \A t \in Threads : closers[t].pc = "done"

\* C28: under every interleaving of two close() calls made at once in the
\* owning process, every worker's close_transformer and close and the
\* launcher's close are invoked once in total
C28_ClosedOnceInTotal ==
    AllReturned =>
        /\ \A n \in Range(child_transformers) :
               /\ clients[n].closed_transformer = 1
               /\ clients[n].closed = 1
        /\ mpilauncher.closed = 1

\* the operations that are calls of close() in which a close call raised
FailedCloses ==
    {b \in OwnerCloses : \E x \in DOMAIN log : log[x].op = b /\ log[x].call = "raise"}

\* C29: close() marks the transformer closed as its last step only: when a
\* worker's close_transformer or close, or the launcher's close, raises,
\* is_closed stays False, and the close() after it issues the close calls to
\* every worker again, also to the workers the failed attempt had closed
C29_FailedCloseRepeats ==
    /\ (FailedCloses # {} /\ OwnerCloses \subseteq FailedCloses) => ~is_closed
    /\ (pc = "close_mark" /\ FailedCloses # {}) =>
          /\ Callees(nops, "close_transformer") = child_transformers
          /\ Callees(nops, "close") = Append(child_transformers, Launcher)

\* a close() that ran to the end after one that raised past a worker
C29_Witness ==
    /\ pc = "close_mark"
    /\ \E b \in FailedCloses, x \in DOMAIN child_transformers :
          /\ b < nops
          /\ Contains(Callees(b, "close"), child_transformers[x])
          /\ Contains(Callees(nops, "close"), child_transformers[x])

-----------------------------------------------------------------------------
(* Properties of the device indices *)

\* the workers of the build in progress have been given their addresses
AddressesSet == InBuild /\ pc \in {"closure", "partition", "create", "get"}

\* the device index of the last set_server_address of worker n
DeviceIndexOf(n) ==
    LET hits == SelectSeq(log, LAMBDA e : e.call = "set_server_address" /\ e.to = n)
    IN  hits[Len(hits)].arg

\* C30: after setup_child_transformers distinct registered workers are bound
\* to distinct device indices, each in 0 .. worker count - 1, for every
\* registry of names cpu<k> or gpu<k> that registration accepts
C30_DistinctIndicesInRange ==
    AddressesSet =>
        \A n, m \in Range(child_transformers) :
            /\ DeviceIndexOf(n) \in 0..(Len(child_transformers) - 1)
            /\ n # m => DeviceIndexOf(n) # DeviceIndexOf(m)

====
